---- MODULE Spec2Model ----
(***************************************************************************)
(* The streaming LLM relay of src-tauri/src/llm.rs: the commands           *)
(* start_llm_stream and stop_llm_stream, the background task               *)
(* stream_llm_response with its primary path (stream_ollama_response) and  *)
(* its fallback path (stream_fallback_response over                        *)
(* LLMClient::generate_response_robust), and the three emit helpers that   *)
(* publish StreamEvent records on the shared event name.                   *)
(*                                                                         *)
(* Text is a sequence of one-character strings.  The wire format of an     *)
(* OllamaResponse document is reduced to the two fields the relay reads:   *)
(* a document is its response text followed by one flag character, "T"     *)
(* (done = true) or "F" (done = false); every other line is undecodable.   *)
(***************************************************************************)
EXTENDS Integers, Sequences, FiniteSets, TLC

(* ------------------------------ bounds -------------------------------- *)

\* longest byte chunk one stream.next() yields
MaxChunkLen == 3
\* most byte chunks one primary response stream yields before it ends or fails
MaxNetChunks == 3
\* longest response text of one non-streaming attempt
MaxTextLen == 4
\* latest wall-clock millisecond
MaxClock == 1
\* latest second of the monotonic clock the rate limiter reads
MaxWebClock == 3
\* processes start_python_backend spawns at most
MaxSpawns == 2

(* ------------------------- program constants -------------------------- *)

MAX_ATTEMPTS == 3
chunk_size == 1
RATE_LIMIT_DELAY_MS == 2000

(* ------------------------------- text --------------------------------- *)

NL == "\n"
SP == " "

TextChars == {"a", SP}
FlagChars == {"T", "F"}
WireChars == TextChars \cup FlagChars \cup {NL}

SeqsUpTo(S, n) == UNION {[1..k -> S] : k \in 0..n}

\* char::is_whitespace on the characters of the model
IsWhitespace(ch) == ch \in {SP, NL}

RECURSIVE TrimStart(_)
TrimStart(s) ==
    IF s = <<>> THEN s
    ELSE IF IsWhitespace(Head(s)) THEN TrimStart(Tail(s)) ELSE s

RECURSIVE TrimEnd(_)
TrimEnd(s) ==
    IF s = <<>> THEN s
    ELSE IF IsWhitespace(s[Len(s)]) THEN TrimEnd(SubSeq(s, 1, Len(s) - 1)) ELSE s

\* the mutant of Trim: nothing is stripped
TrimNothing(s) == s

\* str::trim
Trim(s) == TrimEnd(TrimStart(s))

\* str::find('\n'): the index of the first newline, 0 when there is none
RECURSIVE FindNewline(_)
FindNewline(s) ==
    IF s = <<>> THEN 0
    ELSE IF Head(s) = NL THEN 1
    ELSE LET r == FindNewline(Tail(s)) IN IF r = 0 THEN 0 ELSE r + 1

\* str::split_whitespace: the maximal runs of non-whitespace characters
RECURSIVE SplitWhitespace(_)
SplitWhitespace(s) ==
    LET t == TrimStart(s) IN
    IF t = <<>> THEN <<>>
    ELSE LET n == CHOOSE k \in 1..Len(t) :
                      /\ \A j \in 1..k : ~IsWhitespace(t[j])
                      /\ (k = Len(t) \/ IsWhitespace(t[k + 1]))
         IN <<SubSeq(t, 1, n)>> \o SplitWhitespace(SubSeq(t, n + 1, Len(t)))

\* slice::chunks(n): consecutive groups of n elements, the last one may be short
RECURSIVE Chunks(_, _)
Chunks(ws, n) ==
    IF ws = <<>> THEN <<>>
    ELSE IF Len(ws) <= n THEN <<ws>>
    ELSE <<SubSeq(ws, 1, n)>> \o Chunks(SubSeq(ws, n + 1, Len(ws)), n)

\* [&str]::join(" ")
RECURSIVE Join(_)
Join(ws) ==
    IF ws = <<>> THEN <<>>
    ELSE IF Len(ws) = 1 THEN ws[1]
    ELSE ws[1] \o <<SP>> \o Join(Tail(ws))

\* the mutant of ChunkText: the trailing space is left out
ChunkTextBare(chunk) == Join(chunk)

\* chunk.join(" ") + " "
ChunkText(chunk) == Join(chunk) \o <<SP>>

\* serde_json::from_str::<OllamaResponse>: the response text and the done flag
\* of a document, or a decoding error
ParseDoc(line) ==
    IF /\ Len(line) >= 1
       /\ line[Len(line)] \in FlagChars
       /\ \A j \in 1..Len(line) - 1 : line[j] \in TextChars
    THEN [ok |-> TRUE, response |-> SubSeq(line, 1, Len(line) - 1),
          done |-> line[Len(line)] = "T"]
    ELSE [ok |-> FALSE, response |-> <<>>, done |-> FALSE]

(* ------------------------------- state -------------------------------- *)

VARIABLES
    now,          \* SystemTime::now() in milliseconds since UNIX_EPOCH
    calls,        \* per invocation of start_llm_stream: where the command is
    tasks,        \* per invocation: the background task tokio::spawn created
    wire,         \* per invocation: what the primary byte stream yields next
    events,       \* the records published on "llm-stream-event", in order
    last_stop,    \* the latest invocation of stop_llm_stream and its result
    gen,          \* one invocation of generate_llm_response: where it is
    web,          \* the rate limiter of web_integration.rs and its callers
    backend       \* BACKEND_PROCESS, the spawned processes and the starts

vars == <<now, calls, tasks, wire, events, last_stop, gen, web, backend>>

\* the invocations of start_llm_stream the model follows
Slots == {1, 2}

NoWire == [kind |-> "none", bytes |-> <<>>]

NoCall == [state |-> "idle", prompt |-> <<>>, ok |-> FALSE, value |-> <<>>]

NoTask ==
    [pc |-> "none", stream_id |-> <<>>, prompt |-> <<>>,
     buffer |-> <<>>, accumulated_response |-> <<>>, nread |-> 0,
     primary_err |-> <<>>, fallback_err |-> <<>>, attempts |-> 0,
     response |-> <<>>, words |-> <<>>, i |-> 0,
     requests |-> 0, result |-> "none"]

\* no reply of the generation service is waiting to be read
NoReply == [kind |-> "none", cause |-> "none", bytes |-> <<>>, split |-> FALSE]

NoGen ==
    [pc |-> "idle", method |-> "none", prompt |-> <<>>, attempts |-> 0,
     requests |-> 0, reply |-> NoReply, ok |-> FALSE, value |-> <<>>]

\* the commands of web_integration.rs that pass the rate limiter
WebCalls == {"search_web", "navigate_to_url", "extract_page_content"}

\* LAST_REQUEST_TIME = None, and no command has reached apply_rate_limit
NoWeb ==
    [now |-> 0, LAST_REQUEST_TIME |-> [some |-> FALSE, at |-> 0],
     inv |-> [c \in WebCalls |-> [pc |-> "idle", wake |-> 0, at |-> 0]]]

\* the invocations of start_python_backend the model follows
Starts == {1, 2}

\* BACKEND_PROCESS = None (handle 0), nothing spawned, no command called
NoBackend ==
    [BACKEND_PROCESS |-> 0,
     procs |-> [p \in 1..MaxSpawns |-> "none"],
     starts |-> [s \in Starts |-> [pc |-> "idle", result |-> "none"]],
     last |-> [op |-> "none", result |-> "none", seq |-> 0]]

Init ==
    /\ now = 0
    /\ calls = [c \in Slots |-> NoCall]
    /\ tasks = [c \in Slots |-> NoTask]
    /\ wire = [c \in Slots |-> NoWire]
    /\ events = <<>>
    /\ last_stop = [target |-> "none", result |-> "none"]
    /\ gen = NoGen
    /\ web = NoWeb
    /\ backend = NoBackend

(* ------------------------------ the sink ------------------------------ *)

\* events holds every record the relay hands to app_handle.emit, in the order
\* of the calls; an Err of emit is logged by the helpers and changes nothing
\* the relay does afterwards

\* the event name the three helpers pass to app_handle.emit
EventName == "llm-stream-event"

StreamEvent(stream_id, event_type, data) ==
    [event |-> EventName, stream_id |-> stream_id, event_type |-> event_type,
     data |-> data]

\* the mutant of emit_stream_chunk: the event overtakes the published ones
emit_stream_chunk_first(sink, stream_id, chunk) ==
    <<StreamEvent(stream_id, "chunk", chunk)>> \o sink

emit_stream_chunk(sink, stream_id, chunk) ==
    Append(sink, StreamEvent(stream_id, "chunk", chunk))

emit_stream_complete(sink, stream_id) ==
    Append(sink, StreamEvent(stream_id, "complete", <<>>))

\* the mutant of emit_stream_error: errors go to an event name of their own
emit_stream_error_apart(sink, stream_id, error) ==
    Append(sink, [StreamEvent(stream_id, "error", error)
                      EXCEPT !.event = "llm-stream-error"])

emit_stream_error(sink, stream_id, error) ==
    Append(sink, StreamEvent(stream_id, "error", error))

(* ---------------------------- the commands ---------------------------- *)

\* format!("stream_{}", duration.as_millis())
StreamId(ms) == <<"stream_", ToString(ms)>>

\* start_llm_stream up to and including tokio::spawn; the failures return at once
start_llm_stream(c, prompt) ==
    /\ calls[c].state = "idle"
    /\ IF Trim(prompt) = <<>>
       THEN /\ calls' = [calls EXCEPT ![c] =
                  [state |-> "returned", prompt |-> prompt, ok |-> FALSE,
                   value |-> <<"Prompt cannot be empty">>]]
            /\ UNCHANGED tasks
       ELSE IF now < 0
       THEN /\ calls' = [calls EXCEPT ![c] =
                  [state |-> "returned", prompt |-> prompt, ok |-> FALSE,
                   value |-> <<"Failed to generate stream ID">>]]
            /\ UNCHANGED tasks
       ELSE /\ calls' = [calls EXCEPT ![c] =
                  [state |-> "spawned", prompt |-> prompt, ok |-> FALSE,
                   value |-> StreamId(now)]]
            /\ tasks' = [tasks EXCEPT ![c] =
                  [NoTask EXCEPT !.pc = "start", !.stream_id = StreamId(now),
                                 !.prompt = prompt]]
    /\ UNCHANGED <<now, wire, events, last_stop, gen, web, backend>>

\* the mutant of start_llm_stream_return: the command awaits the task and
\* returns what the generation came to
start_llm_stream_return_awaits(c) ==
    /\ calls[c].state = "spawned"
    /\ tasks[c].pc = "done"
    /\ calls' = [calls EXCEPT ![c].state = "returned",
                              ![c].ok = (tasks[c].result = "Ok"),
                              ![c].value = IF tasks[c].result = "Ok" THEN @
                                           ELSE tasks[c].fallback_err]
    /\ UNCHANGED <<now, tasks, wire, events, last_stop, gen, web, backend>>

\* start_llm_stream after tokio::spawn: Ok(stream_id) reaches the caller
start_llm_stream_return(c) ==
    /\ calls[c].state = "spawned"
    /\ calls' = [calls EXCEPT ![c].state = "returned", ![c].ok = TRUE]
    /\ UNCHANGED <<now, tasks, wire, events, last_stop, gen, web, backend>>

\* what a given stream id is to the sessions at the time of a stop
StopTarget(stream_id) ==
    IF \E c \in Slots : tasks[c].stream_id = stream_id /\ tasks[c].pc \notin {"done", "panicked"}
    THEN "in-flight"
    ELSE IF \E c \in Slots : tasks[c].stream_id = stream_id THEN "terminal"
    ELSE "unknown"

\* the mutant of stop_llm_stream: the stop is reported on the channel
stop_llm_stream_reports(stream_id) ==
    /\ last_stop' = [target |-> StopTarget(stream_id), result |-> "Ok"]
    /\ events' = emit_stream_error(events, stream_id, <<"Stream stopped">>)
    /\ UNCHANGED <<now, calls, tasks, wire, gen, web, backend>>

\* stop_llm_stream: logs and returns Ok(())
stop_llm_stream(stream_id) ==
    /\ last_stop' = [target |-> StopTarget(stream_id), result |-> "Ok"]
    /\ UNCHANGED <<now, calls, tasks, wire, events, gen, web, backend>>

\* the wall clock advances
Tick ==
    /\ now < MaxClock
    /\ now' = now + 1
    /\ UNCHANGED <<calls, tasks, wire, events, last_stop, gen, web, backend>>

(* ------------------------- the primary path --------------------------- *)

\* the mutant of Finished: stream_llm_response calls the fallback path after
\* the primary path whatever that one returned
FinishedThenFallback(t, result) ==
    IF t.pc = "stream"
    THEN [t EXCEPT !.pc = "fallback", !.attempts = 0, !.buffer = <<>>,
                   !.accumulated_response = <<>>, !.nread = 0]
    ELSE [t EXCEPT !.pc = "done", !.result = result, !.buffer = <<>>,
                   !.accumulated_response = <<>>, !.nread = 0,
                   !.response = <<>>, !.words = <<>>, !.i = 0]

\* the task leaves stream_llm_response: its locals are dropped
Finished(t, result) ==
    [t EXCEPT !.pc = "done", !.result = result, !.buffer = <<>>,
              !.accumulated_response = <<>>, !.nread = 0,
              !.response = <<>>, !.words = <<>>, !.i = 0]

\* stream_ollama_response returned Err(e): stream_llm_response turns to
\* stream_fallback_response, which enters generate_response_robust
ToFallback(t, e) ==
    [t EXCEPT !.pc = "fallback", !.primary_err = e, !.attempts = 0,
              !.buffer = <<>>, !.accumulated_response = <<>>, !.nread = 0]

\* the outcomes of the streaming request's send().await and status check
SendOutcomes == {"timeout", "connect", "status", "success"}

\* the mutant of PrimarySend: a request that fails is reported on the channel
\* before the fallback path is taken, as a failure of the byte stream is
PrimarySendReports(c, outcome) ==
    /\ tasks[c].pc = "start"
    /\ LET t == [tasks[c] EXCEPT !.requests = @ + 1]
           error_msg == IF outcome = "status" THEN <<"HTTP error from Ollama: ", "500">>
                        ELSE <<"Failed to send request to Ollama: ", outcome>>
       IN IF outcome = "success"
          THEN /\ tasks' = [tasks EXCEPT ![c] = [t EXCEPT !.pc = "stream"]]
               /\ UNCHANGED events
          ELSE /\ tasks' = [tasks EXCEPT ![c] = ToFallback(t, error_msg)]
               /\ events' = emit_stream_error(events, t.stream_id, error_msg)
    /\ UNCHANGED <<now, calls, wire, last_stop, gen, web, backend>>

\* stream_ollama_response from its start to the first stream.next().await
PrimarySend(c, outcome) ==
    /\ tasks[c].pc = "start"
    /\ LET t == [tasks[c] EXCEPT !.requests = @ + 1] IN
       tasks' = [tasks EXCEPT ![c] =
           CASE outcome \in {"timeout", "connect"} ->
                    ToFallback(t, <<"Failed to send request to Ollama: ", outcome>>)
             [] outcome = "status" ->
                    ToFallback(t, <<"HTTP error from Ollama: ", "500">>)
             [] OTHER -> [t EXCEPT !.pc = "stream"]]
    /\ UNCHANGED <<now, calls, wire, events, last_stop, gen, web, backend>>

\* what follows the last newline of s: the line still to be terminated
RECURSIVE Unterminated(_)
Unterminated(s) ==
    LET pos == FindNewline(s) IN
    IF pos = 0 THEN s ELSE Unterminated(SubSeq(s, pos + 1, Len(s)))

\* the newline-terminated lines of s, in order, without their newlines
RECURSIVE CompleteLines(_)
CompleteLines(s) ==
    LET pos == FindNewline(s) IN
    IF pos = 0 THEN <<>>
    ELSE <<SubSeq(s, 1, pos - 1)>> \o CompleteLines(SubSeq(s, pos + 1, Len(s)))

\* the lines the generation service writes: documents with and without text,
\* done and not done, blank lines, and lines that are no document
WireLines ==
    {<<"a", "F">>, <<"a", "a", "F">>, <<"F">>, <<"a", "T">>, <<"T">>,
     <<>>, <<SP>>, <<SP, "a", "F">>, <<"a">>, <<"T", "a">>}

IsPrefix(p, s) == Len(p) <= Len(s) /\ SubSeq(s, 1, Len(p)) = p

\* s is a sequence of lines of WireLines, the last one possibly cut short
WireText(s) ==
    /\ \A k \in 1..Len(CompleteLines(s)) : CompleteLines(s)[k] \in WireLines
    /\ \E line \in WireLines : IsPrefix(Unterminated(s), line)

\* the byte chunks a stream may yield: the lines cut at any place
NetChunks == SeqsUpTo(WireChars, MaxChunkLen) \ {<<>>}

\* the generation service lets the response stream yield bytes, an error or
\* its end
UpstreamYields(c, item) ==
    /\ tasks[c].pc = "stream"
    /\ wire[c].kind = "none"
    /\ item.kind = "bytes" =>
          /\ tasks[c].nread < MaxNetChunks
          /\ WireText(tasks[c].buffer \o item.bytes)
    /\ wire' = [wire EXCEPT ![c] = item]
    /\ UNCHANGED <<now, calls, tasks, events, last_stop, gen, web, backend>>

\* the mutant of ProcessLines: a line that is no document ends the turn, and
\* the lines behind it wait in the buffer
RECURSIVE ProcessLinesStopAtBad(_, _, _, _)
ProcessLinesStopAtBad(buffer, acc, sink, stream_id) ==
    LET newline_pos == FindNewline(buffer) IN
    IF newline_pos = 0
    THEN [buffer |-> buffer, acc |-> acc, sink |-> sink, done |-> FALSE]
    ELSE LET line == Trim(SubSeq(buffer, 1, newline_pos - 1))
             rest == SubSeq(buffer, newline_pos + 1, Len(buffer))
             doc == ParseDoc(line)
             emits == doc.response # <<>>
             acc2 == IF emits THEN acc \o doc.response ELSE acc
             sink2 == IF emits THEN emit_stream_chunk(sink, stream_id, doc.response)
                      ELSE sink
         IN IF line = <<>> THEN ProcessLinesStopAtBad(rest, acc, sink, stream_id)
            ELSE IF ~doc.ok
            THEN [buffer |-> rest, acc |-> acc, sink |-> sink, done |-> FALSE]
            ELSE IF doc.done
            THEN [buffer |-> rest, acc |-> acc2,
                  sink |-> emit_stream_complete(sink2, stream_id), done |-> TRUE]
            ELSE ProcessLinesStopAtBad(rest, acc2, sink2, stream_id)

\* the mutant of ProcessLines: the text of every document is emitted as a
\* chunk, an empty one too
RECURSIVE ProcessLinesEmitsEmpty(_, _, _, _)
ProcessLinesEmitsEmpty(buffer, acc, sink, stream_id) ==
    LET newline_pos == FindNewline(buffer) IN
    IF newline_pos = 0
    THEN [buffer |-> buffer, acc |-> acc, sink |-> sink, done |-> FALSE]
    ELSE LET line == Trim(SubSeq(buffer, 1, newline_pos - 1))
             rest == SubSeq(buffer, newline_pos + 1, Len(buffer))
             doc == ParseDoc(line)
             acc2 == acc \o doc.response
             sink2 == emit_stream_chunk(sink, stream_id, doc.response)
         IN IF line = <<>> \/ ~doc.ok THEN ProcessLinesEmitsEmpty(rest, acc, sink, stream_id)
            ELSE IF doc.done
            THEN [buffer |-> rest, acc |-> acc2,
                  sink |-> emit_stream_complete(sink2, stream_id), done |-> TRUE]
            ELSE ProcessLinesEmitsEmpty(rest, acc2, sink2, stream_id)

\* the mutant of ProcessLines: the document that is done does not end the
\* loop, and the lines behind it are processed like those before it
RECURSIVE ProcessLinesPastDone(_, _, _, _)
ProcessLinesPastDone(buffer, acc, sink, stream_id) ==
    LET newline_pos == FindNewline(buffer) IN
    IF newline_pos = 0
    THEN [buffer |-> buffer, acc |-> acc, sink |-> sink, done |-> FALSE]
    ELSE LET line == Trim(SubSeq(buffer, 1, newline_pos - 1))
             rest == SubSeq(buffer, newline_pos + 1, Len(buffer))
             doc == ParseDoc(line)
             emits == doc.response # <<>>
             acc2 == IF emits THEN acc \o doc.response ELSE acc
             sink2 == IF emits THEN emit_stream_chunk(sink, stream_id, doc.response)
                      ELSE sink
         IN IF line = <<>> \/ ~doc.ok THEN ProcessLinesPastDone(rest, acc, sink, stream_id)
            ELSE IF doc.done
            THEN [ProcessLinesPastDone(rest, acc2,
                      emit_stream_complete(sink2, stream_id), stream_id)
                  EXCEPT !.done = TRUE]
            ELSE ProcessLinesPastDone(rest, acc2, sink2, stream_id)

\* the loop `while let Some(newline_pos) = buffer.find('\n')`: every complete
\* line of the buffer, up to the document whose done flag is set
RECURSIVE ProcessLines(_, _, _, _)
ProcessLines(buffer, acc, sink, stream_id) ==
    LET newline_pos == FindNewline(buffer) IN
    IF newline_pos = 0
    THEN [buffer |-> buffer, acc |-> acc, sink |-> sink, done |-> FALSE]
    ELSE LET line == Trim(SubSeq(buffer, 1, newline_pos - 1))
             rest == SubSeq(buffer, newline_pos + 1, Len(buffer))
             doc == ParseDoc(line)
             emits == doc.response # <<>>
             acc2 == IF emits THEN acc \o doc.response ELSE acc
             sink2 == IF emits THEN emit_stream_chunk(sink, stream_id, doc.response)
                      ELSE sink
         IN IF line = <<>> \/ ~doc.ok THEN ProcessLines(rest, acc, sink, stream_id)
            ELSE IF doc.done
            THEN [buffer |-> rest, acc |-> acc2,
                  sink |-> emit_stream_complete(sink2, stream_id), done |-> TRUE]
            ELSE ProcessLines(rest, acc2, sink2, stream_id)

\* the mutant of StreamNext: the end of the byte stream completes the session
\* whether or not a text was received
StreamNextEndCompletes(c) ==
    /\ tasks[c].pc = "stream"
    /\ wire[c].kind # "none"
    /\ LET t == tasks[c]
           id == t.stream_id
       IN CASE wire[c].kind = "bytes" ->
                  LET r == ProcessLines(t.buffer \o wire[c].bytes,
                                        t.accumulated_response, events, id)
                  IN /\ events' = r.sink
                     /\ tasks' = [tasks EXCEPT ![c] =
                            IF r.done THEN Finished(t, "Ok")
                            ELSE [t EXCEPT !.buffer = r.buffer,
                                           !.accumulated_response = r.acc,
                                           !.nread = @ + 1]]
            [] wire[c].kind = "error" ->
                  LET error_msg == <<"Stream error: ", "connection reset">>
                  IN /\ events' = emit_stream_error(events, id, error_msg)
                     /\ tasks' = [tasks EXCEPT ![c] = ToFallback(t, error_msg)]
            [] OTHER ->
                  IF TRUE
                  THEN /\ events' = emit_stream_complete(events, id)
                       /\ tasks' = [tasks EXCEPT ![c] = Finished(t, "Ok")]
                  ELSE LET error_msg == <<"No response received from Ollama">>
                       IN /\ events' = emit_stream_error(events, id, error_msg)
                          /\ tasks' = [tasks EXCEPT ![c] = ToFallback(t, error_msg)]
    /\ wire' = [wire EXCEPT ![c] = NoWire]
    /\ UNCHANGED <<now, calls, last_stop, gen, web, backend>>

\* the mutant of StreamNext: when the byte stream ends, what is left in the
\* buffer is parsed as a last line
StreamNextFlushes(c) ==
    /\ tasks[c].pc = "stream"
    /\ wire[c].kind # "none"
    /\ LET t == tasks[c]
           id == t.stream_id
       IN CASE wire[c].kind = "bytes" ->
                  LET r == ProcessLines(t.buffer \o wire[c].bytes,
                                        t.accumulated_response, events, id)
                  IN /\ events' = r.sink
                     /\ tasks' = [tasks EXCEPT ![c] =
                            IF r.done THEN Finished(t, "Ok")
                            ELSE [t EXCEPT !.buffer = r.buffer,
                                           !.accumulated_response = r.acc,
                                           !.nread = @ + 1]]
            [] wire[c].kind = "error" ->
                  LET error_msg == <<"Stream error: ", "connection reset">>
                  IN /\ events' = emit_stream_error(events, id, error_msg)
                     /\ tasks' = [tasks EXCEPT ![c] = ToFallback(t, error_msg)]
            [] OTHER ->
                  LET r == ProcessLines(t.buffer \o <<NL>>,
                                        t.accumulated_response, events, id)
                  IN
                  IF r.done
                  THEN /\ events' = r.sink
                       /\ tasks' = [tasks EXCEPT ![c] = Finished(t, "Ok")]
                  ELSE IF r.acc # <<>>
                  THEN /\ events' = emit_stream_complete(r.sink, id)
                       /\ tasks' = [tasks EXCEPT ![c] = Finished(t, "Ok")]
                  ELSE LET error_msg == <<"No response received from Ollama">>
                       IN /\ events' = emit_stream_error(events, id, error_msg)
                          /\ tasks' = [tasks EXCEPT ![c] = ToFallback(t, error_msg)]
    /\ wire' = [wire EXCEPT ![c] = NoWire]
    /\ UNCHANGED <<now, calls, last_stop, gen, web, backend>>

\* one turn of `while let Some(chunk_result) = stream.next().await`, and what
\* follows the loop when the stream has ended
StreamNext(c) ==
    /\ tasks[c].pc = "stream"
    /\ wire[c].kind # "none"
    /\ LET t == tasks[c]
           id == t.stream_id
       IN CASE wire[c].kind = "bytes" ->
                  LET r == ProcessLines(t.buffer \o wire[c].bytes,
                                        t.accumulated_response, events, id)
                  IN /\ events' = r.sink
                     /\ tasks' = [tasks EXCEPT ![c] =
                            IF r.done THEN Finished(t, "Ok")
                            ELSE [t EXCEPT !.buffer = r.buffer,
                                           !.accumulated_response = r.acc,
                                           !.nread = @ + 1]]
            [] wire[c].kind = "error" ->
                  LET error_msg == <<"Stream error: ", "connection reset">>
                  IN /\ events' = emit_stream_error(events, id, error_msg)
                     /\ tasks' = [tasks EXCEPT ![c] = ToFallback(t, error_msg)]
            [] OTHER ->
                  IF t.accumulated_response # <<>>
                  THEN /\ events' = emit_stream_complete(events, id)
                       /\ tasks' = [tasks EXCEPT ![c] = Finished(t, "Ok")]
                  ELSE LET error_msg == <<"No response received from Ollama">>
                       IN /\ events' = emit_stream_error(events, id, error_msg)
                          /\ tasks' = [tasks EXCEPT ![c] = ToFallback(t, error_msg)]
    /\ wire' = [wire EXCEPT ![c] = NoWire]
    /\ UNCHANGED <<now, calls, last_stop, gen, web, backend>>

(* ------------------------- the fallback path -------------------------- *)

\* the Display of LLMError
Timeout == <<"Request timeout">>
ServiceUnavailable(m) == <<"Ollama service unavailable: ">> \o m
InvalidResponse(m) == <<"Invalid response format: ">> \o m
Network(e) == <<"Network error: ", e>>
EmptyPrompt == <<"Empty prompt provided">>

\* the response bodies of a non-streaming attempt: a document of every text,
\* and the same without its flag, which is no document
Texts == SeqsUpTo(TextChars, MaxTextLen)
Bodies == {text \o <<"T">> : text \in Texts} \cup Texts
BadBodies == {b \in Bodies : ~ParseDoc(b).ok}

\* what one attempt of the non-streaming request meets: send() fails, the
\* status is not a success, reading the body fails, or a body arrives; split
\* says that the body is longer than 200 bytes and byte 200 lies inside a
\* character
AttemptOutcomes ==
    [kind : {"send_err"}, cause : {"timeout", "connect", "other"},
     bytes : {<<>>}, split : {FALSE}]
    \cup [kind : {"status", "body_err"}, cause : {"none"},
          bytes : {<<>>}, split : {FALSE}]
    \cup [kind : {"body"}, cause : {"none"}, bytes : Bodies, split : {FALSE}]
    \cup [kind : {"body"}, cause : {"none"}, bytes : BadBodies, split : {TRUE}]

Retry(n) == [kind |-> "retry", attempts |-> n, requests |-> 1, value |-> <<>>]
Return(kind, n, requests, value) ==
    [kind |-> kind, attempts |-> n, requests |-> requests, value |-> value]

\* the mutant of generate_response_robust: the last attempt's failure is
\* retried too, and the loop ends at its condition
generate_response_robust_late(prompt, attempts, o) ==
    IF Trim(prompt) = <<>> THEN Return("err", attempts, 0, EmptyPrompt)
    ELSE IF ~(attempts < MAX_ATTEMPTS)
    THEN Return("err", attempts, 0, ServiceUnavailable(<<"Max attempts reached">>))
    ELSE
    LET n == attempts + 1
        doc == ParseDoc(o.bytes)
    IN CASE o.kind = "send_err" ->
              IF n > MAX_ATTEMPTS
              THEN Return("err", n, 1,
                       CASE o.cause = "timeout" -> Timeout
                         [] o.cause = "connect" ->
                              ServiceUnavailable(<<"Cannot connect to Ollama service after 3 attempts">>)
                         [] OTHER -> Network(o.cause))
              ELSE Retry(n)
         [] o.kind = "status" ->
              IF n > MAX_ATTEMPTS
              THEN Return("err", n, 1,
                       ServiceUnavailable(<<"Ollama API returned error 500 after 3 attempts">>))
              ELSE Retry(n)
         [] o.kind = "body_err" -> Return("err", n, 1, Network("body"))
         [] OTHER ->
              IF ~doc.ok
              THEN IF o.split
                   THEN Return("panic", n, 1, <<>>)
                   ELSE Return("err", n, 1,
                            InvalidResponse(<<"Failed to parse JSON response from Ollama API">>))
              ELSE IF Trim(doc.response) = <<>>
              THEN IF n > MAX_ATTEMPTS
                   THEN Return("err", n, 1,
                            InvalidResponse(<<"Received empty response from LLM after multiple attempts">>))
                   ELSE Retry(n)
              ELSE Return("ok", n, 1, Trim(doc.response))

\* LLMClient::generate_response_robust from the await it is suspended at to
\* the next one: the prompt check that precedes the loop, then one turn of the
\* loop `while attempts < MAX_ATTEMPTS` on the outcome o of its request
generate_response_robust(prompt, attempts, o) ==
    IF Trim(prompt) = <<>> THEN Return("err", attempts, 0, EmptyPrompt)
    ELSE IF ~(attempts < MAX_ATTEMPTS)
    THEN Return("err", attempts, 0, ServiceUnavailable(<<"Max attempts reached">>))
    ELSE
    LET n == attempts + 1
        doc == ParseDoc(o.bytes)
    IN CASE o.kind = "send_err" ->
              IF n >= MAX_ATTEMPTS
              THEN Return("err", n, 1,
                       CASE o.cause = "timeout" -> Timeout
                         [] o.cause = "connect" ->
                              ServiceUnavailable(<<"Cannot connect to Ollama service after 3 attempts">>)
                         [] OTHER -> Network(o.cause))
              ELSE Retry(n)
         [] o.kind = "status" ->
              IF n >= MAX_ATTEMPTS
              THEN Return("err", n, 1,
                       ServiceUnavailable(<<"Ollama API returned error 500 after 3 attempts">>))
              ELSE Retry(n)
         [] o.kind = "body_err" -> Return("err", n, 1, Network("body"))
         [] OTHER ->
              IF ~doc.ok
              THEN IF o.split
                   THEN Return("panic", n, 1, <<>>)
                   ELSE Return("err", n, 1,
                            InvalidResponse(<<"Failed to parse JSON response from Ollama API">>))
              ELSE IF Trim(doc.response) = <<>>
              THEN IF n >= MAX_ATTEMPTS
                   THEN Return("err", n, 1,
                            InvalidResponse(<<"Received empty response from LLM after multiple attempts">>))
                   ELSE Retry(n)
              ELSE Return("ok", n, 1, Trim(doc.response))

\* the mutant of FallbackAttempt: every failed attempt that is retried is
\* reported on the channel
FallbackAttemptReportsRetry(c, o) ==
    /\ tasks[c].pc = "fallback"
    /\ LET t == tasks[c]
           id == t.stream_id
           r == generate_response_robust(t.prompt, t.attempts, o)
           u == [t EXCEPT !.attempts = r.attempts, !.requests = @ + r.requests]
           words == SplitWhitespace(r.value)
           groups == Chunks(words, chunk_size)
           error_msg == <<"LLM generation failed: ">> \o r.value
       IN CASE r.kind = "retry" ->
                  /\ tasks' = [tasks EXCEPT ![c] = u]
                  /\ events' = emit_stream_error(events, id, <<"Attempt failed, retrying">>)
            [] r.kind = "panic" ->
                  /\ tasks' = [tasks EXCEPT ![c] = [u EXCEPT !.pc = "panicked"]]
                  /\ UNCHANGED events
            [] r.kind = "err" ->
                  /\ events' = emit_stream_error(
                         emit_stream_error(events, id, error_msg), id,
                         <<"All streaming methods failed: ">> \o error_msg)
                  /\ tasks' = [tasks EXCEPT ![c] =
                         [Finished(u, "Err") EXCEPT !.fallback_err = error_msg]]
            [] OTHER ->
                  IF groups = <<>>
                  THEN /\ events' = emit_stream_complete(events, id)
                       /\ tasks' = [tasks EXCEPT ![c] = Finished(u, "Ok")]
                  ELSE /\ events' = emit_stream_chunk(events, id, ChunkText(groups[1]))
                       /\ tasks' = [tasks EXCEPT ![c] =
                              [u EXCEPT !.pc = "emit", !.response = r.value,
                                        !.words = words, !.i = 1]]
    /\ UNCHANGED <<now, calls, wire, last_stop, gen, web, backend>>

\* stream_fallback_response from one await of generate_response_robust to the
\* next suspension: a retry, or the result and what stream_fallback_response
\* and stream_llm_response do with it up to the first sleep
FallbackAttempt(c, o) ==
    /\ tasks[c].pc = "fallback"
    /\ LET t == tasks[c]
           id == t.stream_id
           r == generate_response_robust(t.prompt, t.attempts, o)
           u == [t EXCEPT !.attempts = r.attempts, !.requests = @ + r.requests]
           words == SplitWhitespace(r.value)
           groups == Chunks(words, chunk_size)
           error_msg == <<"LLM generation failed: ">> \o r.value
       IN CASE r.kind = "retry" ->
                  /\ tasks' = [tasks EXCEPT ![c] = u]
                  /\ UNCHANGED events
            [] r.kind = "panic" ->
                  /\ tasks' = [tasks EXCEPT ![c] = [u EXCEPT !.pc = "panicked"]]
                  /\ UNCHANGED events
            [] r.kind = "err" ->
                  /\ events' = emit_stream_error(
                         emit_stream_error(events, id, error_msg), id,
                         <<"All streaming methods failed: ">> \o error_msg)
                  /\ tasks' = [tasks EXCEPT ![c] =
                         [Finished(u, "Err") EXCEPT !.fallback_err = error_msg]]
            [] OTHER ->
                  IF groups = <<>>
                  THEN /\ events' = emit_stream_complete(events, id)
                       /\ tasks' = [tasks EXCEPT ![c] = Finished(u, "Ok")]
                  ELSE /\ events' = emit_stream_chunk(events, id, ChunkText(groups[1]))
                       /\ tasks' = [tasks EXCEPT ![c] =
                              [u EXCEPT !.pc = "emit", !.response = r.value,
                                        !.words = words, !.i = 1]]
    /\ UNCHANGED <<now, calls, wire, last_stop, gen, web, backend>>

\* stream_fallback_response after a sleep of its loop: the next word group,
\* or emit_stream_complete when the groups are exhausted
FallbackEmitNext(c) ==
    /\ tasks[c].pc = "emit"
    /\ LET t == tasks[c]
           groups == Chunks(t.words, chunk_size)
       IN IF t.i < Len(groups)
          THEN /\ events' = emit_stream_chunk(events, t.stream_id,
                                              ChunkText(groups[t.i + 1]))
               /\ tasks' = [tasks EXCEPT ![c].i = @ + 1]
          ELSE /\ events' = emit_stream_complete(events, t.stream_id)
               /\ tasks' = [tasks EXCEPT ![c] = Finished(t, "Ok")]
    /\ UNCHANGED <<now, calls, wire, last_stop, gen, web, backend>>

(* ----------------------- the one-shot command ------------------------- *)

\* generate_llm_response up to the first send().await of
\* generate_response_robust; an empty prompt returns at once
generate_llm_response(prompt) ==
    /\ gen.pc = "idle"
    /\ LET r == generate_response_robust(prompt, 0, NoReply) IN
       gen' = IF Trim(prompt) = <<>>
              THEN [NoGen EXCEPT !.pc = "returned", !.method = "robust",
                                 !.prompt = prompt, !.value = r.value]
              ELSE [NoGen EXCEPT !.pc = "await", !.method = "robust",
                                 !.prompt = prompt]
    /\ UNCHANGED <<now, calls, tasks, wire, events, last_stop, web, backend>>

\* the generation service answers the request the call is suspended at
UpstreamReplies(o) ==
    /\ gen.pc = "await"
    /\ gen.reply = NoReply
    /\ gen' = [gen EXCEPT !.reply = o]
    /\ UNCHANGED <<now, calls, tasks, wire, events, last_stop, web, backend>>

\* generate_llm_response resumes: one turn of the loop of
\* generate_response_robust on the reply, then the next request or the return
generate_llm_response_resume ==
    /\ gen.pc = "await"
    /\ gen.method = "robust"
    /\ gen.reply # NoReply
    /\ LET r == generate_response_robust(gen.prompt, gen.attempts, gen.reply)
           g == [gen EXCEPT !.attempts = r.attempts, !.requests = @ + r.requests,
                            !.reply = NoReply]
       IN gen' = CASE r.kind = "retry" -> g
                   [] r.kind = "panic" -> [g EXCEPT !.pc = "panicked"]
                   [] r.kind = "err" -> [g EXCEPT !.pc = "returned", !.value = r.value]
                   [] OTHER -> [g EXCEPT !.pc = "returned", !.ok = TRUE,
                                         !.value = r.value]
    /\ UNCHANGED <<now, calls, tasks, wire, events, last_stop, web, backend>>

\* the mutant of generate_response: the request is sent for every prompt
generate_response_unchecked(prompt, o) ==
    Return("retry", 0, 0, <<>>)

\* LLMClient::generate_response: the prompt check, then its one request and
\* what it makes of the outcome o
generate_response(prompt, o) ==
    IF Trim(prompt) = <<>> THEN Return("err", 0, 0, EmptyPrompt)
    ELSE
    LET doc == ParseDoc(o.bytes)
    IN CASE o.kind = "none" -> Return("retry", 0, 0, <<>>)  \* at send().await
         [] o.kind = "send_err" ->
              Return("err", 1, 1,
                  CASE o.cause = "timeout" -> Timeout
                    [] o.cause = "connect" ->
                         ServiceUnavailable(<<"Cannot connect to Ollama service.">>)
                    [] OTHER -> Network(o.cause))
         [] o.kind = "status" ->
              Return("err", 1, 1, ServiceUnavailable(<<"Ollama service error.">>))
         [] o.kind = "body_err" -> Return("err", 1, 1, Network("body"))
         [] OTHER ->
              IF ~doc.ok
              THEN Return("err", 1, 1,
                       InvalidResponse(<<"Empty or malformed response from Ollama API">>))
              ELSE IF Trim(doc.response) = <<>>
              THEN Return("err", 1, 1,
                       InvalidResponse(<<"Received empty response from LLM">>))
              ELSE Return("ok", 1, 1, Trim(doc.response))

\* a caller awaits LLMClient::generate_response, as tests::test_empty_prompt_error
\* does: up to the send().await, or to the return when the prompt is refused
generate_response_call(prompt) ==
    /\ gen.pc = "idle"
    /\ LET r == generate_response(prompt, NoReply) IN
       gen' = IF r.kind = "err"
              THEN [NoGen EXCEPT !.pc = "returned", !.method = "plain",
                                 !.prompt = prompt, !.value = r.value]
              ELSE [NoGen EXCEPT !.pc = "await", !.method = "plain",
                                 !.prompt = prompt]
    /\ UNCHANGED <<now, calls, tasks, wire, events, last_stop, web, backend>>

\* LLMClient::generate_response resumes on the reply and returns
generate_response_resume ==
    /\ gen.pc = "await"
    /\ gen.method = "plain"
    /\ gen.reply # NoReply
    /\ LET r == generate_response(gen.prompt, gen.reply) IN
       gen' = [gen EXCEPT !.pc = "returned", !.attempts = r.attempts,
                          !.requests = @ + r.requests, !.reply = NoReply,
                          !.ok = (r.kind = "ok"), !.value = r.value]
    /\ UNCHANGED <<now, calls, tasks, wire, events, last_stop, web, backend>>

(* ------------------------ the web rate limiter ------------------------ *)

\* apply_rate_limit from its entry to the read of LAST_REQUEST_TIME: the
\* caller sleeps for what is left of the delay, or goes on to the store.
\* LAST_REQUEST_TIME is a `static mut` read and written without a lock by
\* commands that run on several threads, so the read and the store are
\* steps of their own
apply_rate_limit(c) ==
    /\ web.inv[c].pc = "idle"
    /\ LET last == web.LAST_REQUEST_TIME
           elapsed == web.now - last.at
       IN web' = IF last.some /\ elapsed < RATE_LIMIT_DELAY_MS
                 THEN [web EXCEPT !.inv[c].pc = "sleep",
                                  !.inv[c].wake = web.now + (RATE_LIMIT_DELAY_MS - elapsed)]
                 ELSE [web EXCEPT !.inv[c].pc = "store"]
    /\ UNCHANGED <<now, calls, tasks, wire, events, last_stop, gen, backend>>

\* the sleep of apply_rate_limit is over
apply_rate_limit_wake(c) ==
    /\ web.inv[c].pc = "sleep"
    /\ web.now >= web.inv[c].wake
    /\ web' = [web EXCEPT !.inv[c].pc = "store"]
    /\ UNCHANGED <<now, calls, tasks, wire, events, last_stop, gen, backend>>

\* LAST_REQUEST_TIME = Some(Instant::now()): the caller passes the limiter
apply_rate_limit_store(c) ==
    /\ web.inv[c].pc = "store"
    /\ web' = [web EXCEPT !.LAST_REQUEST_TIME = [some |-> TRUE, at |-> web.now],
                          !.inv[c].pc = "passed", !.inv[c].at = web.now]
    /\ UNCHANGED <<now, calls, tasks, wire, events, last_stop, gen, backend>>

\* the monotonic clock advances by a second while a command is still to pass
WebTick ==
    /\ web.now < MaxWebClock * 1000
    /\ \E c \in WebCalls : web.inv[c].pc # "passed"
    /\ web' = [web EXCEPT !.now = @ + 1000]
    /\ UNCHANGED <<now, calls, tasks, wire, events, last_stop, gen, backend>>

(* ------------------------- the Python backend ------------------------- *)

\* the process is alive: it was spawned and has neither exited nor been killed
Running(p) == backend.procs[p] \in {"starting", "serving"}

\* GET /health is answered with a success status by some process
Healthy == \E p \in 1..MaxSpawns : backend.procs[p] = "serving"

\* the pid the next spawn gets
NextPid == CHOOSE p \in 1..MaxSpawns :
               backend.procs[p] = "none" /\ \A q \in 1..p - 1 : backend.procs[q] # "none"

\* start_python_backend from its entry to the first turn of the wait loop:
\* is_backend_running() says running (which no process may confirm yet, or
\* within its 2 seconds), then Command::spawn succeeds or not, and the Child
\* is stored in BACKEND_PROCESS over whatever is there
start_python_backend(s, running, spawned) ==
    /\ backend.starts[s].pc = "idle"
    /\ running => Healthy
    /\ IF running
       THEN backend' = [backend EXCEPT !.starts[s] =
                [pc |-> "returned", result |-> "Backend already running"]]
       ELSE IF ~spawned
       THEN backend' = [backend EXCEPT !.starts[s] =
                [pc |-> "returned", result |-> "Failed to start Python backend"]]
       ELSE /\ \E p \in 1..MaxSpawns : backend.procs[p] = "none"
            /\ backend' = [backend EXCEPT !.procs[NextPid] = "starting",
                                          !.BACKEND_PROCESS = NextPid,
                                          !.starts[s].pc = "waiting"]
    /\ UNCHANGED <<now, calls, tasks, wire, events, last_stop, gen, web>>

\* the wait loop of start_python_backend ends: the backend answers, or
\* BACKEND_STARTUP_TIMEOUT has passed without an answer
start_python_backend_wait(s, ready) ==
    /\ backend.starts[s].pc = "waiting"
    /\ ready => Healthy
    /\ backend' = [backend EXCEPT !.starts[s] =
           [pc |-> "returned",
            result |-> IF ready THEN "Backend started successfully"
                       ELSE "Backend startup timeout"]]
    /\ UNCHANGED <<now, calls, tasks, wire, events, last_stop, gen, web>>

\* a spawned process binds the port and serves /health; one process can
ProcServes(p) ==
    /\ backend.procs[p] = "starting"
    /\ ~Healthy
    /\ backend' = [backend EXCEPT !.procs[p] = "serving"]
    /\ UNCHANGED <<now, calls, tasks, wire, events, last_stop, gen, web>>

\* a spawned process ends by itself
ProcExits(p) ==
    /\ Running(p)
    /\ backend' = [backend EXCEPT !.procs[p] = "exited"]
    /\ UNCHANGED <<now, calls, tasks, wire, events, last_stop, gen, web>>

\* what Child::kill may return for the process: Ok for one that is alive,
\* Ok or Err, by platform, for one that has exited
KillOutcomes(p) == IF Running(p) THEN {"ok"} ELSE {"ok", "fail"}

\* the mutant of stop_python_backend: a handle whose kill failed is put back
stop_python_backend_keeps(kill) ==
    /\ LET h == backend.BACKEND_PROCESS IN
       IF h = 0
       THEN backend' = [backend EXCEPT !.last =
                [op |-> "stop", result |-> "No backend process running",
                 seq |-> 1 - @.seq]]
       ELSE /\ kill \in KillOutcomes(h)
            /\ backend' = [backend EXCEPT
                   !.BACKEND_PROCESS = IF kill = "ok" THEN 0 ELSE h,
                   !.procs[h] = IF kill = "ok" /\ Running(h) THEN "killed" ELSE @,
                   !.last = [op |-> "stop",
                             result |-> IF kill = "ok" THEN "Backend stopped successfully"
                                        ELSE "Failed to stop backend",
                             seq |-> 1 - @.seq]]
    /\ UNCHANGED <<now, calls, tasks, wire, events, last_stop, gen, web>>

\* stop_python_backend, under the lock of BACKEND_PROCESS from take() to the
\* return
stop_python_backend(kill) ==
    /\ LET h == backend.BACKEND_PROCESS IN
       IF h = 0
       THEN backend' = [backend EXCEPT !.last =
                [op |-> "stop", result |-> "No backend process running",
                 seq |-> 1 - @.seq]]
       ELSE /\ kill \in KillOutcomes(h)
            /\ backend' = [backend EXCEPT
                   !.BACKEND_PROCESS = 0,
                   !.procs[h] = IF kill = "ok" /\ Running(h) THEN "killed" ELSE @,
                   !.last = [op |-> "stop",
                             result |-> IF kill = "ok" THEN "Backend stopped successfully"
                                        ELSE "Failed to stop backend",
                             seq |-> 1 - @.seq]]
    /\ UNCHANGED <<now, calls, tasks, wire, events, last_stop, gen, web>>

\* cleanup_backend: as stop_python_backend, with nothing returned
cleanup_backend(kill) ==
    /\ LET h == backend.BACKEND_PROCESS IN
       IF h = 0
       THEN backend' = [backend EXCEPT !.last =
                [op |-> "cleanup", result |-> "none", seq |-> 1 - @.seq]]
       ELSE /\ kill \in KillOutcomes(h)
            /\ backend' = [backend EXCEPT
                   !.BACKEND_PROCESS = 0,
                   !.procs[h] = IF kill = "ok" /\ Running(h) THEN "killed" ELSE @,
                   !.last = [op |-> "cleanup", result |-> "none", seq |-> 1 - @.seq]]
    /\ UNCHANGED <<now, calls, tasks, wire, events, last_stop, gen, web>>

(* -------------------------- specifications ---------------------------- *)

\* the prompts handed to start_llm_stream: empty, whitespace only, and two
\* that are not empty after trimming
Prompts == {<<>>, <<SP>>, <<SP, NL>>, <<"a">>, <<SP, "a", SP>>}

StreamIds == {StreamId(ms) : ms \in 0..MaxClock + 1}

WireItems ==
    [kind : {"bytes"}, bytes : NetChunks]
    \cup [kind : {"error", "end"}, bytes : {<<>>}]

\* one session, every input
Next ==
    \/ \E prompt \in Prompts : start_llm_stream(1, prompt)
    \/ start_llm_stream_return(1)
    \/ \E outcome \in SendOutcomes : PrimarySend(1, outcome)
    \/ \E item \in WireItems : UpstreamYields(1, item)
    \/ StreamNext(1)
    \/ \E o \in AttemptOutcomes : FallbackAttempt(1, o)
    \/ FallbackEmitNext(1)

Spec == Init /\ [][Next]_vars

\* the inputs of the two-session specification
ConcPrompts == {<<SP>>, <<"a">>}
ConcSendOutcomes == {"connect", "success"}
ConcWireItems ==
    [kind : {"bytes"}, bytes : {<<"a", "T", NL>>}]
    \cup [kind : {"end"}, bytes : {<<>>}]
ConcAttemptOutcomes ==
    {o \in AttemptOutcomes :
        \/ o.kind = "send_err" /\ o.cause = "timeout"
        \/ o.kind = "body" /\ o.bytes = <<"a", "T">>}

\* two sessions side by side, the wall clock and stop_llm_stream; the slots
\* are taken in order, and the clock is followed while a start can still read it
NextConc ==
    \/ (\E c \in Slots : calls[c].state = "idle") /\ Tick
    \/ \E c \in Slots, prompt \in ConcPrompts :
          /\ \A b \in Slots : b < c => calls[b].state # "idle"
          /\ start_llm_stream(c, prompt)
    \/ \E c \in Slots : start_llm_stream_return(c)
    \/ \E stream_id \in StreamIds : stop_llm_stream(stream_id)
    \/ \E c \in Slots, outcome \in ConcSendOutcomes : PrimarySend(c, outcome)
    \/ \E c \in Slots, item \in ConcWireItems : UpstreamYields(c, item)
    \/ \E c \in Slots : StreamNext(c)
    \/ \E c \in Slots, o \in ConcAttemptOutcomes : FallbackAttempt(c, o)
    \/ \E c \in Slots : FallbackEmitNext(c)

SpecConc == Init /\ [][NextConc]_vars

\* one invocation of generate_llm_response or of generate_response, every reply
NextGen ==
    \/ \E prompt \in Prompts : generate_llm_response(prompt)
    \/ \E prompt \in Prompts : generate_response_call(prompt)
    \/ \E o \in AttemptOutcomes : UpstreamReplies(o)
    \/ generate_llm_response_resume
    \/ generate_response_resume

SpecGen == Init /\ [][NextGen]_vars

\* the three commands of web_integration.rs at the rate limiter
NextWeb ==
    \/ \E c \in WebCalls : apply_rate_limit(c)
    \/ \E c \in WebCalls : apply_rate_limit_wake(c)
    \/ \E c \in WebCalls : apply_rate_limit_store(c)
    \/ WebTick

SpecWeb == Init /\ [][NextWeb]_vars

\* starts and stops of the Python backend, side by side
NextBackend ==
    \/ \E s \in Starts, running, spawned \in BOOLEAN :
          start_python_backend(s, running, spawned)
    \/ \E s \in Starts, ready \in BOOLEAN : start_python_backend_wait(s, ready)
    \/ \E p \in 1..MaxSpawns : ProcServes(p)
    \/ \E p \in 1..MaxSpawns : ProcExits(p)
    \/ \E kill \in {"ok", "fail"} : stop_python_backend(kill)
    \/ \E kill \in {"ok", "fail"} : cleanup_backend(kill)

SpecBackend == Init /\ [][NextBackend]_vars

(* ------------------------------ claims -------------------------------- *)

Range(s) == {s[k] : k \in 1..Len(s)}

\* the events of one stream id, in the order of their publication
SessionEvents(stream_id) == SelectSeq(events, LAMBDA e : e.stream_id = stream_id)

IsTerminal(e) == e.event_type \in {"complete", "error"}

Started(c) == tasks[c].pc # "none"

Ended(c) == tasks[c].pc \in {"done", "panicked"}

\* a prompt of whitespace characters only (the empty prompt included)
Blank(prompt) == \A k \in 1..Len(prompt) : IsWhitespace(prompt[k])

\* C1: the events of a session are chunk events followed by exactly one
\* terminal event: no terminal event is followed by another event of the
\* session, and a finished session has a terminal event last.
C1_ChunksThenOneTerminal ==
    \A c \in Slots : Started(c) =>
        LET es == SessionEvents(tasks[c].stream_id) IN
        /\ \A k \in 1..Len(es) - 1 : ~IsTerminal(es[k])
        /\ tasks[c].pc = "done" => Len(es) >= 1 /\ IsTerminal(es[Len(es)])

\* C2: no background task ends without a terminal event of its session
\* having been emitted.
C2_EndedHasTerminal ==
    \A c \in Slots : Ended(c) =>
        \E e \in Range(SessionEvents(tasks[c].stream_id)) : IsTerminal(e)

\* C3: an event carrying the stream id of a session is emitted only after
\* start_llm_stream has returned that id to its caller.
C3_ReturnBeforeEvents ==
    \A c \in Slots :
        (Started(c) /\ SessionEvents(tasks[c].stream_id) # <<>>)
            => calls[c].state = "returned"

\* C4: start_llm_stream with an empty or whitespace-only prompt fails at once:
\* the command has returned an error, no task exists, nothing is in flight,
\* no request was issued and no event was emitted.
C4_BlankPromptRejected ==
    /\ \A c \in Slots :
          (calls[c].state # "idle" /\ Blank(calls[c].prompt)) =>
              /\ calls[c].state = "returned"
              /\ ~calls[c].ok
              /\ tasks[c] = NoTask
              /\ wire[c] = NoWire
    /\ (\A c \in Slots : calls[c].state # "idle" => Blank(calls[c].prompt))
          => events = <<>>

C4_Witness ==
    /\ calls[1].state = "returned"
    /\ calls[1].prompt = <<SP, NL>>
    /\ ~calls[1].ok

\* C5: when the primary path and the fallback path both fail, the session
\* emits a single error event, which names the primary failure and the
\* fallback failure, and it is the last event of the session.
C5_OneErrorNamingBoth ==
    \A c \in Slots :
        (tasks[c].pc = "done" /\ tasks[c].result = "Err") =>
            LET es == SessionEvents(tasks[c].stream_id)
                errors == SelectSeq(es, LAMBDA e : e.event_type = "error")
            IN /\ Len(errors) = 1
               /\ es[Len(es)].event_type = "error"
               /\ Range(tasks[c].primary_err) \subseteq Range(es[Len(es)].data)
               /\ Range(tasks[c].fallback_err) \subseteq Range(es[Len(es)].data)

\* the places of s where a word starts, and where the word starting at k ends
WordStarts(s) ==
    {k \in 1..Len(s) : ~IsWhitespace(s[k]) /\ (k = 1 \/ IsWhitespace(s[k - 1]))}
WordEnd(s, k) ==
    CHOOSE j \in k..Len(s) :
        /\ \A m \in k..j : ~IsWhitespace(s[m])
        /\ (j = Len(s) \/ IsWhitespace(s[j + 1]))
NthStart(s, n) ==
    CHOOSE k \in WordStarts(s) : Cardinality({m \in WordStarts(s) : m <= k}) = n

\* the words of s: its maximal runs of characters that are no whitespace
WordsOf(s) ==
    [n \in 1..Cardinality(WordStarts(s)) |->
        SubSeq(s, NthStart(s, n), WordEnd(s, NthStart(s, n)))]

\* the words lo..hi of ws, each followed by one space
RECURSIVE Spaced(_, _, _)
Spaced(ws, lo, hi) ==
    IF lo > hi THEN <<>> ELSE ws[lo] \o <<SP>> \o Spaced(ws, lo + 1, hi)

Min(x, y) == IF x <= y THEN x ELSE y

NGroups(ws, size) == (Len(ws) + size - 1) \div size

\* the payload of the g-th group of the given size
GroupPayload(ws, g, size) == Spaced(ws, (g - 1) * size + 1, Min(g * size, Len(ws)))

FiveWords == <<"a", SP, "b", SP, "c", SP, "d", SP, "e">>

C6_GroupsSoFar ==
    /\ LET groups == Chunks(SplitWhitespace(FiveWords), 2) IN
       [g \in 1..Len(groups) |-> ChunkText(groups[g])]
           = << <<"a", SP, "b", SP>>, <<"c", SP, "d", SP>>, <<"e", SP>> >>
    /\ \A c \in Slots : tasks[c].pc = "emit" =>
          LET es == SessionEvents(tasks[c].stream_id)
              ws == WordsOf(tasks[c].response)
              i == tasks[c].i
          IN /\ 1 <= i /\ i <= NGroups(ws, chunk_size) /\ i <= Len(es)
             /\ \A g \in 1..i :
                   es[Len(es) - i + g] =
                       StreamEvent(tasks[c].stream_id, "chunk",
                                   GroupPayload(ws, g, chunk_size))

C6_CompleteAfterLastGroup ==
    \A c \in Slots :
        (tasks[c].pc = "emit" /\ tasks'[c].pc # "emit") =>
            /\ tasks[c].i = NGroups(WordsOf(tasks[c].response), chunk_size)
            /\ events' = Append(events,
                   StreamEvent(tasks[c].stream_id, "complete", <<>>))
            /\ tasks'[c].pc = "done" /\ tasks'[c].result = "Ok"

\* C6: the fallback path emits the words of the complete text in groups of
\* chunk_size, in the order of the text: the g-th chunk event carries the
\* words of the g-th group, each followed by one space, the last group may
\* be short, and 'complete' follows the last group and nothing else; the
\* text "a b c d e" in groups of 2 gives "a b ", "c d ", "e ".
C6_FallbackWordGroups ==
    []C6_GroupsSoFar /\ [][C6_CompleteAfterLastGroup]_vars

C6_Witness ==
    /\ tasks[1].pc = "done" /\ tasks[1].result = "Ok"
    /\ tasks[1].primary_err # <<>>
    /\ \E k \in 1..Len(events) - 2 :
          /\ events[k] = StreamEvent(tasks[1].stream_id, "chunk", <<"a", "a", SP>>)
          /\ events[k + 1] = StreamEvent(tasks[1].stream_id, "chunk", <<"a", SP>>)
          /\ events[k + 2].event_type = "complete"

\* a turn of the primary loop on bytes the stream yielded
StreamTurn(c) ==
    /\ tasks[c].pc = "stream"
    /\ wire[c].kind = "bytes"
    /\ wire'[c].kind = "none"

\* the complete lines a turn has before it
TurnLines(c) == CompleteLines(tasks[c].buffer \o wire[c].bytes)

Decodable(line) == ParseDoc(Trim(line)).ok

\* the documents among the given lines, up to the first one that is done
DocsUpToDone(lines) ==
    LET good == SelectSeq(lines, Decodable)
        docs == [k \in 1..Len(good) |-> ParseDoc(Trim(good[k]))]
        dones == {k \in 1..Len(docs) : docs[k].done}
    IN IF dones = {} THEN docs
       ELSE SubSeq(docs, 1, CHOOSE k \in dones : \A m \in dones : k <= m)

HasDone(docs) == \E k \in 1..Len(docs) : docs[k].done

\* the response texts of the documents that have one
ResponseTexts(docs) ==
    LET with == SelectSeq(docs, LAMBDA d : d.response # <<>>)
    IN [k \in 1..Len(with) |-> with[k].response]

\* the events published by the step
NewEvents == SubSeq(events', Len(events) + 1, Len(events'))

\* C7: in a turn of the primary loop the lines that are no document emit
\* nothing and end nothing: the events of the turn are those of its
\* decodable lines alone, a chunk for each text and 'complete' after the
\* document that is done, and without such a document the session goes on
\* reading.
C7_BadLinesSkipped ==
    [][\A c \in Slots : StreamTurn(c) =>
          LET docs == DocsUpToDone(TurnLines(c))
              texts == ResponseTexts(docs)
              id == tasks[c].stream_id
          IN /\ events' = events
                    \o [k \in 1..Len(texts) |-> StreamEvent(id, "chunk", texts[k])]
                    \o (IF HasDone(docs) THEN <<StreamEvent(id, "complete", <<>>)>>
                        ELSE <<>>)
             /\ tasks'[c].pc = (IF HasDone(docs) THEN "done" ELSE "stream")
             /\ HasDone(docs) => tasks'[c].result = "Ok"]_vars

\* a chunk was emitted, and the turn at hand has a line that is no document
C7_Witness ==
    /\ tasks[1].pc = "stream"
    /\ wire[1].kind = "bytes"
    /\ \E k \in 1..Len(events) : events[k].event_type = "chunk"
    /\ TurnLines(1) = << <<"a">> >>

\* C8: the chunk events of the primary path carry, in the order of receipt,
\* the non-empty response texts of the decoded lines up to the document that
\* is done: each turn appends them to the published events, none twice and
\* none left out.
C8_ChunksInReceiptOrder ==
    [][\A c \in Slots : StreamTurn(c) =>
          LET chunks == SelectSeq(NewEvents, LAMBDA e : e.event_type = "chunk")
          IN /\ Len(events') >= Len(events)
             /\ SubSeq(events', 1, Len(events)) = events
             /\ [k \in 1..Len(chunks) |-> chunks[k].data]
                    = ResponseTexts(DocsUpToDone(TurnLines(c)))
             /\ \A k \in 1..Len(chunks) : chunks[k].stream_id = tasks[c].stream_id]_vars

C8_Witness ==
    /\ tasks[1].pc = "done" /\ tasks[1].primary_err = <<>>
    /\ events = << StreamEvent(tasks[1].stream_id, "chunk", <<"a", "a">>),
                   StreamEvent(tasks[1].stream_id, "chunk", <<"a">>),
                   StreamEvent(tasks[1].stream_id, "complete", <<>>) >>

\* C9: stop_llm_stream returns Ok for every stream id, and the step changes
\* nothing but the record of the stop: no event, no session, no command and
\* nothing in flight.
C9_StopChangesNothing ==
    [][last_stop' # last_stop =>
          /\ last_stop'.result = "Ok"
          /\ events' = events
          /\ tasks' = tasks
          /\ calls' = calls
          /\ wire' = wire]_vars

\* stops of a running, of a finished and of an unknown stream are all reached
C9_Witness ==
    /\ last_stop.target = "terminal"
    /\ last_stop.result = "Ok"
    /\ \E c \in Slots : tasks[c].pc = "done"

\* C10: two sessions of distinct successful start_llm_stream calls have
\* distinct stream ids.
C10_DistinctStreamIds ==
    \A b, c \in Slots :
        (b # c /\ Started(b) /\ Started(c)) => tasks[b].stream_id # tasks[c].stream_id

\* the primary request of the session could not be sent or was answered with
\* a non-success status, and the task has just turned to the fallback path
PrimaryRequestFailed(c) ==
    /\ tasks[c].pc = "fallback"
    /\ tasks[c].attempts = 0
    /\ tasks[c].primary_err # <<>>
    /\ tasks[c].primary_err[1] \in {"Failed to send request to Ollama: ",
                                    "HTTP error from Ollama: "}

\* C11: a primary request that fails in transport or with a non-success
\* status is retried: when the relay falls through to the fallback path for
\* such a failure, 3 primary requests have been made.
C11_PrimaryRetried ==
    \A c \in Slots : PrimaryRequestFailed(c) => tasks[c].requests = MAX_ATTEMPTS

\* generate_llm_response resumes on the reply it was waiting for
GenTurn ==
    /\ gen.pc = "await" /\ gen.method = "robust"
    /\ gen.reply # NoReply /\ gen'.reply = NoReply

\* the reply is a response document with a text that is not blank
HasText(o) ==
    o.kind = "body" /\ ParseDoc(o.bytes).ok /\ Trim(ParseDoc(o.bytes).response) # <<>>

\* the reply is a transient failure: a transport error of the send or of the
\* body read, a non-success status, or a document with an empty text
Transient(o) ==
    \/ o.kind \in {"send_err", "status", "body_err"}
    \/ o.kind = "body" /\ ParseDoc(o.bytes).ok /\ Trim(ParseDoc(o.bytes).response) = <<>>

\* C12: one call of generate_response_robust issues at most 3 requests and
\* never ends without a result or an error; the first attempt that yields a
\* non-empty text ends the call with that text (trimmed), and a call that has
\* returned issues no further request.
C12_RobustBoundedAndEnds ==
    /\ [](gen.requests <= MAX_ATTEMPTS /\ gen.pc # "panicked")
    /\ [][(GenTurn /\ HasText(gen.reply)) =>
              /\ gen'.pc = "returned"
              /\ gen'.ok
              /\ gen'.value = Trim(ParseDoc(gen.reply.bytes).response)]_vars
    /\ [][gen.pc = "returned" => gen'.requests = gen.requests]_vars

\* C13: in generate_response_robust a transient failure of an attempt before
\* the third leads to another attempt, and only the third attempt's transient
\* failure is returned to the caller as an error.
C13_TransientRetried ==
    [][(GenTurn /\ Transient(gen.reply)) =>
          IF gen.attempts + 1 < MAX_ATTEMPTS
          THEN gen'.pc = "await" /\ gen'.attempts = gen.attempts + 1
          ELSE gen'.pc = "returned" /\ ~gen'.ok /\ gen'.attempts = MAX_ATTEMPTS]_vars

\* C14: in generate_response_robust a success-status reply whose body is no
\* response document ends the call at once with the invalid-response error,
\* and no further request is made.
C14_UndecodableFatal ==
    [][(GenTurn /\ gen.reply.kind = "body" /\ ~ParseDoc(gen.reply.bytes).ok) =>
          /\ gen'.pc = "returned"
          /\ ~gen'.ok
          /\ gen'.value =
                 InvalidResponse(<<"Failed to parse JSON response from Ollama API">>)
          /\ gen'.requests = gen.requests + 1]_vars

\* C15: retries are invisible: a step of the fallback path that ends a failed
\* attempt and goes on to the next one emits nothing, and a step of the path
\* that emits is one on which generate_response_robust has returned its
\* outcome, a text or an error.
C15_RetriesInvisible ==
    [][\A c \in Slots : tasks[c].pc = "fallback" =>
          /\ tasks'[c].pc = "fallback" => events' = events
          /\ events' # events =>
                /\ tasks'[c].pc \in {"emit", "done"}
                /\ tasks'[c].pc = "done" /\ tasks'[c].result = "Err"
                       => tasks'[c].fallback_err # <<>>]_vars

\* two attempts of the fallback generator have failed and nothing was emitted
C15_Witness ==
    /\ tasks[1].pc = "fallback"
    /\ tasks[1].attempts = 2
    /\ tasks[1].requests = 3
    /\ events = <<>>

\* C16: a primary request that cannot be sent, times out or is answered with
\* a non-success status is no failure of the session: the step emits nothing,
\* the session has no terminal event and no result, and the task enters the
\* fallback path, which it never enters a second time.
C16_PrimaryFailureFallsThrough ==
    [][\A c \in Slots :
          /\ (tasks[c].pc = "start" /\ tasks'[c].pc # "start") =>
                /\ events' = events
                /\ tasks'[c].pc \in {"stream", "fallback"}
                /\ tasks'[c].pc = "fallback" =>
                      /\ PrimaryRequestFailed(c)'
                      /\ tasks'[c].result = "none"
                      /\ \A e \in Range(SessionEvents(tasks[c].stream_id)) :
                             ~IsTerminal(e)
          /\ tasks[c].pc \in {"emit", "done", "panicked"} => tasks'[c].pc # "fallback"
          /\ (tasks[c].pc = "fallback" /\ tasks'[c].pc = "fallback"
                  /\ tasks'[c] # tasks[c])
                => tasks'[c].attempts = tasks[c].attempts + 1]_vars

\* the primary request met a non-success status, and the fallback path has
\* run and ended the session
C16_Witness ==
    /\ tasks[1].pc = "done"
    /\ tasks[1].primary_err = <<"HTTP error from Ollama: ", "500">>
    /\ tasks[1].result = "Ok"
    /\ Len(events) = 2
    /\ events[2].event_type = "complete"

\* the places of the given lines that hold a document whose done flag is set
DoneLines(lines) ==
    {k \in 1..Len(lines) : Decodable(lines[k]) /\ ParseDoc(Trim(lines[k])).done}

\* the documents among the given lines, all of them
DocsOf(lines) ==
    LET good == SelectSeq(lines, Decodable)
    IN [k \in 1..Len(good) |-> ParseDoc(Trim(good[k]))]

\* C17: a turn of the primary loop that meets a document with done = true
\* emits the chunks of the lines up to and including that document, then
\* 'complete', and ends the task; whatever lines follow the document in the
\* buffer change nothing, and a task ended this way takes no further step:
\* it reads no bytes and emits nothing.
C17_DoneStopsTheRelay ==
    [][\A c \in Slots :
          /\ (StreamTurn(c) /\ DoneLines(TurnLines(c)) # {}) =>
                LET lines == TurnLines(c)
                    first == CHOOSE k \in DoneLines(lines) :
                                 \A m \in DoneLines(lines) : k <= m
                    texts == ResponseTexts(DocsOf(SubSeq(lines, 1, first)))
                    id == tasks[c].stream_id
                IN /\ events' = events
                          \o [k \in 1..Len(texts) |-> StreamEvent(id, "chunk", texts[k])]
                          \o <<StreamEvent(id, "complete", <<>>)>>
                   /\ tasks'[c].pc = "done"
                   /\ tasks'[c].buffer = <<>>
          /\ (tasks[c].pc = "done" /\ tasks[c].primary_err = <<>>) =>
                /\ tasks'[c] = tasks[c]
                /\ wire[c] = NoWire /\ wire'[c] = NoWire
                /\ (\A b \in Slots : tasks'[b] = tasks[b]) => events' = events]_vars

\* the turn at hand has a document that is done, with a text of its own, and
\* a further document behind it in the same buffer
C17_Witness ==
    /\ tasks[1].pc = "stream"
    /\ wire[1].kind = "bytes"
    /\ TurnLines(1) = << <<"a", "T">>, <<"T">> >>

\* the events of the stream id are chunks followed by at most one terminal event
ChunksThenTerminal(es) == \A k \in 1..Len(es) - 1 : ~IsTerminal(es[k])

\* C18: with two sessions side by side, the events of each session's stream
\* id are chunks followed by one terminal event, the last one once the
\* session has ended, and a step of one session's task never changes the
\* events filtered by the other session's stream id.
C18_SessionsIndependent ==
    /\ [](\A c \in Slots : Started(c) =>
             LET es == SessionEvents(tasks[c].stream_id) IN
             /\ ChunksThenTerminal(es)
             /\ Ended(c) => es # <<>> /\ IsTerminal(es[Len(es)]))
    /\ [][\A b, c \in Slots :
             (b # c /\ Started(c) /\ tasks'[b] # tasks[b]) =>
                 SessionEvents(tasks[c].stream_id)' = SessionEvents(tasks[c].stream_id)]_vars

\* C19: every event is published under the one event name
\* 'llm-stream-event' with an event_type of chunk, complete or error, and the
\* events a task's step publishes carry the stream id that start_llm_stream
\* handed to the caller of that session; a step of no task publishes nothing.
C19_OneChannelOwnId ==
    /\ [](\A e \in Range(events) :
             /\ e.event = "llm-stream-event"
             /\ e.event_type \in {"chunk", "complete", "error"})
    /\ [][/\ Len(events') >= Len(events)
          /\ SubSeq(events', 1, Len(events)) = events
          /\ \A c \in Slots : tasks'[c] # tasks[c] =>
                \A e \in Range(NewEvents) :
                    /\ calls[c].state \in {"spawned", "returned"}
                    /\ e.stream_id = calls[c].value
                    /\ e.stream_id = tasks[c].stream_id
          /\ (\A c \in Slots : tasks'[c] = tasks[c]) => NewEvents = <<>>]_vars

\* both commands have returned distinct stream ids, events of both ids were
\* published, and events of the three types are among them
C19_Witness ==
    /\ \A c \in Slots : calls[c].state = "returned" /\ calls[c].ok
    /\ calls[1].value # calls[2].value
    /\ \A c \in Slots : SessionEvents(calls[c].value) # <<>>
    /\ {e.event_type : e \in Range(events)} = {"chunk", "complete", "error"}

\* C20: the payload of every event matches its kind: a chunk carries a text
\* that is not empty, 'complete' carries the empty string, and an error
\* carries a message that is not empty.
C20_PayloadMatchesKind ==
    \A k \in 1..Len(events) :
        CASE events[k].event_type = "chunk" -> Len(events[k].data) > 0
          [] events[k].event_type = "complete" -> events[k].data = <<>>
          [] events[k].event_type = "error" -> Len(events[k].data) > 0
          [] OTHER -> FALSE

\* the primary path has emitted a chunk and then failed, and the fallback
\* path has emitted a chunk and 'complete': events of every kind exist
C20_Witness ==
    /\ tasks[1].pc = "done"
    /\ Len(events) = 4
    /\ [k \in 1..4 |-> events[k].event_type] = <<"chunk", "error", "chunk", "complete">>

\* C21: for a prompt that is not blank start_llm_stream hands out a stream id
\* and can return it at any moment after the spawn, whatever the task has or
\* has not done; its steps issue no request, a failed generation shows as an
\* 'error' event of the session, and what the command returned never changes.
C21_ReturnsIdRegardless ==
    /\ [](\A c \in Slots :
             (calls[c].state # "idle" /\ ~Blank(calls[c].prompt)) =>
                 /\ calls[c].value = tasks[c].stream_id
                 /\ calls[c].value[1] = "stream_"
                 /\ calls[c].state = "spawned" => ENABLED start_llm_stream_return(c)
                 /\ calls[c].state = "returned" => calls[c].ok
                 /\ tasks[c].result = "Err" =>
                       \E e \in Range(SessionEvents(tasks[c].stream_id)) :
                           e.event_type = "error")
    /\ [][\A c \in Slots :
             /\ calls[c].state = "returned" => calls'[c] = calls[c]
             /\ calls'[c] # calls[c] =>
                   tasks'[c].requests = tasks[c].requests /\ events' = events]_vars

\* the generation of the session has failed on both paths, and the command
\* has returned Ok with the stream id
C21_Witness ==
    /\ calls[1].state = "returned"
    /\ calls[1].ok
    /\ calls[1].value = StreamId(0)
    /\ tasks[1].pc = "done"
    /\ tasks[1].result = "Err"

\* C22: generate_response and generate_response_robust called with an empty
\* or whitespace-only prompt return the EmptyPrompt error, and no request and
\* no attempt was made for the call.
C22_EmptyPromptNoRequest ==
    (gen.pc # "idle" /\ Blank(gen.prompt)) =>
        /\ gen.pc = "returned"
        /\ ~gen.ok
        /\ gen.value = <<"Empty prompt provided">>
        /\ gen.requests = 0
        /\ gen.attempts = 0
        /\ gen.reply = NoReply

\* generate_response has returned for a whitespace-only prompt
C22_Witness ==
    /\ gen.pc = "returned"
    /\ gen.method = "plain"
    /\ gen.prompt = <<SP, NL>>

\* the task is inside stream_fallback_response
InFallback(c) == tasks[c].pc \in {"fallback", "emit"}

\* the primary path of the session has returned Ok after its 'complete'
PrimaryCompleted(c) == tasks[c].pc = "done" /\ tasks[c].primary_err = <<>>

\* C23: the fallback generator runs only after the primary path has returned
\* a failure, and then the primary path reads and holds nothing any more; a
\* task enters the fallback path from the primary path alone; and a session
\* whose primary path emitted 'complete' has made the one primary request and
\* never reaches the fallback path.
C23_FallbackAfterPrimaryFailure ==
    /\ [](\A c \in Slots :
             /\ (InFallback(c) \/ tasks[c].attempts > 0) =>
                   /\ tasks[c].primary_err # <<>>
                   /\ wire[c] = NoWire
                   /\ tasks[c].buffer = <<>> /\ tasks[c].accumulated_response = <<>>
                   /\ tasks[c].requests = 1 + tasks[c].attempts
             /\ PrimaryCompleted(c) =>
                   /\ tasks[c].requests = 1
                   /\ tasks[c].attempts = 0
                   /\ tasks[c].result = "Ok"
                   /\ SessionEvents(tasks[c].stream_id) # <<>>)
    /\ [][\A c \in Slots :
             /\ (~InFallback(c) /\ InFallback(c)') => tasks[c].pc \in {"start", "stream"}
             /\ PrimaryCompleted(c) => tasks'[c] = tasks[c]]_vars

\* the primary path has emitted a chunk and 'complete', and the session has
\* ended with the one request of the primary path
C23_Witness ==
    /\ PrimaryCompleted(1)
    /\ tasks[1].requests = 1
    /\ Len(events) = 2
    /\ events[2].event_type = "complete"

\* C24: the chunks of a session come from one generation result: a step of
\* the fallback path that emits its first chunk does so for a session that
\* has no chunk yet, so the fallback text never follows chunks of the primary
\* path under the same stream id.
C24_OneGenerationResult ==
    [][\A c \in Slots :
          (tasks[c].pc = "fallback" /\ tasks'[c] # tasks[c]
              /\ \E e \in Range(NewEvents) : e.event_type = "chunk")
          => \A e \in Range(SessionEvents(tasks[c].stream_id)) :
                 e.event_type # "chunk"]_vars

\* the turn of the primary loop on which the byte stream has ended
EndTurn(c) == tasks[c].pc = "stream" /\ wire[c].kind = "end" /\ wire'[c] = NoWire

\* C25: when the byte stream ends and no document was done, a session with
\* at least one chunk gets 'complete' and ends without the fallback path,
\* and a session for which no text was received gets no 'complete' from the
\* primary path, which has failed: the task turns to the fallback path.
C25_EndOfStream ==
    [][\A c \in Slots : EndTurn(c) =>
          LET id == tasks[c].stream_id
              chunked == \E e \in Range(SessionEvents(id)) : e.event_type = "chunk"
          IN /\ chunked <=> tasks[c].accumulated_response # <<>>
             /\ IF chunked
                THEN /\ events' = Append(events, StreamEvent(id, "complete", <<>>))
                     /\ tasks'[c].pc = "done"
                     /\ tasks'[c].result = "Ok"
                     /\ tasks'[c].primary_err = <<>>
                     /\ tasks'[c].attempts = 0
                ELSE /\ \A e \in Range(NewEvents) : e.event_type # "complete"
                     /\ tasks'[c].pc = "fallback"
                     /\ tasks'[c].primary_err = <<"No response received from Ollama">>]_vars

\* the byte stream has ended after a chunk, and no document was done
C25_Witness ==
    /\ tasks[1].pc = "stream"
    /\ wire[1].kind = "end"
    /\ tasks[1].accumulated_response = <<"a">>
    /\ Len(events) = 1

\* C26: any two commands that have passed the rate limiter did so at least
\* RATE_LIMIT_DELAY_MS apart.
C26_RateLimitKeepsDelay ==
    \A a, b \in WebCalls :
        (a # b /\ web.inv[a].pc = "passed" /\ web.inv[b].pc = "passed") =>
            \/ web.inv[a].at - web.inv[b].at >= RATE_LIMIT_DELAY_MS
            \/ web.inv[b].at - web.inv[a].at >= RATE_LIMIT_DELAY_MS

\* C27: every process spawned by start_python_backend that is still alive is
\* the one held in BACKEND_PROCESS, and no step replaces the handle of a
\* process that is still alive by another one.
C27_SpawnedProcessHeld ==
    /\ [](\A p \in 1..MaxSpawns : Running(p) => backend.BACKEND_PROCESS = p)
    /\ [][(backend.BACKEND_PROCESS # 0 /\ Running(backend.BACKEND_PROCESS)
              /\ backend'.BACKEND_PROCESS # backend.BACKEND_PROCESS)
          => backend'.BACKEND_PROCESS = 0]_vars

\* a step of stop_python_backend, seen by the record of the latest stop
StopStep == backend'.last.seq # backend.last.seq /\ backend'.last.op = "stop"

\* the processes the step has killed
KilledByStep ==
    {p \in 1..MaxSpawns : backend'.procs[p] = "killed" /\ backend.procs[p] # "killed"}

\* C28: stop_python_backend leaves BACKEND_PROCESS empty whether the kill
\* succeeded or failed and kills at most the one process that was held; with
\* no process registered it returns Ok "No backend process running" and
\* changes nothing, so a stop that follows a stop kills nothing.
C28_StopLeavesEmpty ==
    [][StopStep =>
          /\ backend'.BACKEND_PROCESS = 0
          /\ KilledByStep \subseteq {backend.BACKEND_PROCESS}
          /\ backend'.starts = backend.starts
          /\ backend.BACKEND_PROCESS = 0 =>
                /\ backend'.last.result = "No backend process running"
                /\ backend'.procs = backend.procs
          /\ backend.BACKEND_PROCESS # 0 =>
                backend'.last.result \in {"Backend stopped successfully",
                                          "Failed to stop backend"}]_vars

\* a stop whose kill failed has returned, and no process is registered
C28_Witness ==
    /\ backend.last.op = "stop"
    /\ backend.last.result = "Failed to stop backend"
    /\ backend.BACKEND_PROCESS = 0
    /\ \E p \in 1..MaxSpawns : backend.procs[p] = "killed"

\* C29: the primary path parses newline-terminated lines alone: a turn on
\* bytes keeps what follows the last newline in the buffer and emits nothing
\* for it, and when the byte stream ends the buffer is dropped: the step emits
\* no chunk, and its one event is decided by the text accumulated before,
\* 'complete' if there is one and the error otherwise, whatever the buffer
\* holds.
C29_UnterminatedTailDropped ==
    [][\A c \in Slots :
          /\ (StreamTurn(c) /\ tasks'[c].pc = "stream") =>
                /\ tasks'[c].buffer = Unterminated(tasks[c].buffer \o wire[c].bytes)
                /\ Len(NewEvents) <= Len(TurnLines(c))
          /\ EndTurn(c) =>
                LET id == tasks[c].stream_id IN
                /\ NewEvents =
                       IF tasks[c].accumulated_response # <<>>
                       THEN <<StreamEvent(id, "complete", <<>>)>>
                       ELSE <<StreamEvent(id, "error",
                                  <<"No response received from Ollama">>)>>
                /\ tasks'[c].buffer = <<>>
                /\ tasks'[c].pc = (IF tasks[c].accumulated_response # <<>>
                                   THEN "done" ELSE "fallback")]_vars

\* the byte stream has ended while the buffer holds a final document with a
\* text and done = true that no newline has terminated
C29_Witness ==
    /\ tasks[1].pc = "stream"
    /\ wire[1].kind = "end"
    /\ tasks[1].buffer = <<"a", "T">>
    /\ tasks[1].accumulated_response = <<>>

\* C30: the loop of generate_response_robust is never left through its
\* condition: the call never waits for a fourth attempt, the third attempt
\* ends the call inside the loop, the attempt counter stays within 3, and
\* the result "Max attempts reached" is never returned.
C30_LoopEndsInside ==
    /\ [](/\ gen.attempts <= MAX_ATTEMPTS
          /\ gen.pc = "await" => gen.attempts < MAX_ATTEMPTS
          /\ gen.value # ServiceUnavailable(<<"Max attempts reached">>))
    /\ [][(GenTurn /\ gen.attempts = MAX_ATTEMPTS - 1) =>
              /\ gen'.pc # "await"
              /\ gen'.attempts = MAX_ATTEMPTS]_vars

\* the third attempt has failed, and the call has returned its error
C30_Witness ==
    /\ gen.pc = "returned"
    /\ gen.method = "robust"
    /\ ~gen.ok
    /\ gen.attempts = 3
    /\ gen.requests = 3

====
